---- MODULE Spec2Model ----
(***************************************************************************)
(* A model of notebook/agentchat_function_call.ipynb (two agents, two      *)
(* registered tools, one chat) and of the "docs" workflow that follows it  *)
(* in the same source file (jobs checks and gh-release).                   *)
(*                                                                         *)
(* Python strings are sequences of tokens; a token is a piece of text that *)
(* is never split further.  Optional values are None (the empty tuple) or  *)
(* Some(v) (a one-element tuple).                                          *)
(***************************************************************************)
EXTENDS Integers, Sequences, FiniteSets, TLC

VARIABLES
    nb,             \* how far the notebook's code cells have been executed
    function_map,   \* user_proxy._function_map: tool name -> registered callable
    llm_tools,      \* names of the tool signatures in chatbot.llm_config
    chatbot_function_map, \* chatbot._function_map
    proxy_llm_tools,      \* names of the tool signatures held by user_proxy
    phase,          \* where the synchronous initiate_chat call stack is
    counter,        \* user_proxy._consecutive_auto_reply_counter[chatbot]
    to_proxy,       \* chatbot's message that user_proxy is handling (Optional)
    to_chatbot,     \* user_proxy's message that chatbot is answering (Optional)
    tool_returns,   \* tool responses collected so far for the reply in progress
    executions,     \* calls of registered callables made for the reply in progress
    running,        \* ids of the calls whose callable has been entered and not left
    senders,        \* sender of each message of the chat so far, oldest first
    open_calls,     \* ids of the suggested tool calls that have no response yet
    misdelivered,   \* a response was sent for an id that had no open call
    event,          \* github.event_name of the workflow run
    yarn_lock,      \* website/yarn.lock exists in the checked-out repository
    package_lock,   \* website/package-lock.json exists
    job_status,     \* per job: pending, skipped, running, success, failure
    steps_run,      \* per job: the steps started so far, each with its result
    commands,       \* per job: the commands and actions started so far
    cell_arg,       \* exec_python alone: its argument
    run_result,     \* exec_python alone: what ipython.run_cell returned (Optional)
    log,            \* exec_python alone: the string returned (Optional)
    env_var,        \* os.environ.get("OAI_CONFIG_LIST"), parsed (Optional)
    json_file,      \* the configurations in the file OAI_CONFIG_LIST
    config_list,    \* config_list of cell 2 (Optional)
    file_read       \* the file OAI_CONFIG_LIST has been opened

regVars == <<function_map, llm_tools, chatbot_function_map, proxy_llm_tools>>

msgVars == <<to_proxy, to_chatbot, tool_returns, executions, running, senders, open_calls,
            misdelivered>>

chatVars == <<nb, regVars, phase, counter, msgVars>>

ciVars == <<event, yarn_lock, package_lock, job_status, steps_run, commands>>

fnVars == <<cell_arg, run_result, log>>

cfgVars == <<env_var, json_file, config_list, file_read>>

vars == <<chatVars, ciVars, fnVars, cfgVars>>

notChat == <<ciVars, fnVars, cfgVars>>

notCI == <<chatVars, fnVars, cfgVars>>

notFn == <<chatVars, ciVars, cfgVars>>

notCfg == <<chatVars, ciVars, fnVars>>

----------------------------------------------------------------------------
(* Optional values *)

None == <<>>
Some(v) == <<v>>
IsNone(o) == o = <<>>
Val(o) == o[1]

----------------------------------------------------------------------------
(* Bounds of the model *)

MaxToolCalls == 2

MaxConfigs == 2

----------------------------------------------------------------------------
(* Strings *)

Whitespace == {" ", "\n"}

RECURSIVE rstrip(_)
rstrip(s) ==
    IF s = <<>> THEN <<>>
    ELSE IF s[Len(s)] \in Whitespace THEN rstrip(SubSeq(s, 1, Len(s) - 1))
    ELSE s

endswith(s, suffix) ==
    /\ Len(s) >= Len(suffix)
    /\ SubSeq(s, Len(s) - Len(suffix) + 1, Len(s)) = suffix

RECURSIVE join(_, _)
join(sep, parts) ==
    IF parts = <<>> THEN <<>>
    ELSE IF Len(parts) = 1 THEN parts[1]
    ELSE parts[1] \o sep \o join(sep, Tail(parts))

----------------------------------------------------------------------------
(* The agents' configuration, cell 3 of the notebook *)

\* Faulty variant: max_consecutive_auto_reply left at the library's default
MaxConsecutiveAutoReply_default == 99 + 1

\* max_consecutive_auto_reply=10
MaxConsecutiveAutoReply == 10

human_input_mode == "NEVER"

\* Faulty variant: the lambda without .rstrip()
is_termination_msg_no_rstrip(x) ==
    /\ ~IsNone(x.content)
    /\ Val(x.content) # <<>>
    /\ endswith(Val(x.content), <<"TERMINATE">>)

\* Faulty variant: the library's default test, content == "TERMINATE"
is_termination_msg_exact(x) == x.content = Some(<<"TERMINATE">>)

\* lambda x: x.get("content", "") and x.get("content", "").rstrip().endswith("TERMINATE")
is_termination_msg(x) ==
    /\ ~IsNone(x.content)
    /\ Val(x.content) # <<>>
    /\ endswith(rstrip(Val(x.content)), <<"TERMINATE">>)

----------------------------------------------------------------------------
(* The two example functions, cell 3 of the notebook *)

\* Values a cell can evaluate to, and Python's str() of each
PyValues == {"None", "1", "'TERMINATE'"}

str(v) ==
    CASE v = "None" -> <<"None">>
      [] v = "1" -> <<"1">>
      [] v = "'TERMINATE'" -> <<"TERMINATE">>

\* Exceptions IPython stores in an ExecutionResult; f"{e}" is the message
PyErrors == {"SyntaxError", "ZeroDivisionError"}

format_error(e) ==
    CASE e = "SyntaxError" -> <<"invalid syntax">>
      [] e = "ZeroDivisionError" -> <<"division by zero">>

\* ipython.run_cell(cell) never raises: it returns an ExecutionResult
ExecutionResults ==
    [result : PyValues,
     error_before_exec : {None} \cup {Some(e) : e \in PyErrors},
     error_in_exec : {None} \cup {Some(e) : e \in PyErrors}]

\* Faulty variant: the second test written as elif
exec_python_elif(result) ==
    LET log0 == str(result.result)
    IN  IF ~IsNone(result.error_before_exec)
        THEN log0 \o <<"\n">> \o format_error(Val(result.error_before_exec))
        ELSE IF ~IsNone(result.error_in_exec)
        THEN log0 \o <<"\n">> \o format_error(Val(result.error_in_exec))
        ELSE log0

\* exec_python, with result = ipython.run_cell(cell)
exec_python(result) ==
    LET log0 == str(result.result)
        log1 == IF ~IsNone(result.error_before_exec)
                THEN log0 \o <<"\n">> \o format_error(Val(result.error_before_exec))
                ELSE log0
        log2 == IF ~IsNone(result.error_in_exec)
                THEN log1 \o <<"\n">> \o format_error(Val(result.error_in_exec))
                ELSE log1
    IN  log2

\* user_proxy.execute_code_blocks([("sh", script)]) gives (exitcode, logs)
ShellResults == [exitcode : {0, 1}, logs : {<<"out">>, <<"sh: not found">>}]

\* exec_sh, with outcome = user_proxy.execute_code_blocks([("sh", script)])
exec_sh(outcome) == <<outcome.exitcode, outcome.logs>>

----------------------------------------------------------------------------
(* Registration, cell 3 of the notebook *)

\* the first argument of autogen.agentchat.register_function(...)
RegisterFunctionArg == "exec_python"

\* Faulty variant: the decorated function registered under another name
DecoratorName_py == "py"

\* name= of @chatbot.register_for_llm(...)
DecoratorName == "python"

\* name= of autogen.agentchat.register_function(...)
RegisterFunctionName == "sh"

\* register_for_llm(name)(f) then register_for_execution(name)(f)
register(fmap, name, f) == (name :> f) @@ fmap

\* The agent of @<agent>.register_for_execution()
DecoratorExecutor == "user_proxy"

\* The agent of @<agent>.register_for_llm(...)
DecoratorCaller == "chatbot"

\* caller= of autogen.agentchat.register_function(...)
RegisterFunctionCaller == "chatbot"

\* Faulty variant: the assistant given as the executor
RegisterFunctionExecutor_chatbot == "chatbot"

\* executor= of autogen.agentchat.register_function(...)
RegisterFunctionExecutor == "user_proxy"

\* executor.register_for_execution(name)(f), seen from agent's _function_map
register_for_execution(executor, agent, fmap, name, f) ==
    IF executor = agent THEN register(fmap, name, f) ELSE fmap

\* caller.register_for_llm(name)(f), seen from agent's tool signatures
register_for_llm(caller, agent, tools, name) ==
    IF caller = agent THEN tools \cup {name} ELSE tools

----------------------------------------------------------------------------
(* Messages *)

\* What the model may put in "content": None, or a string that is empty, plain,
\* blank, TERMINATE, TERMINATE followed by white space, TERMINATE followed by text
ChatContents ==
    {None, Some(<<>>), Some(<<"ok">>), Some(<<"\n">>), Some(<<"TERMINATE">>),
     Some(<<"TERMINATE", "\n">>), Some(<<"TERMINATE", "ok">>)}

Cells == {"plt.savefig('agents_chatting.png')", "ls"}

\* "arguments" of a tool call: a string that is a JSON object {"cell": ...} or
\* a string that is not JSON at all (the first call of the recorded chat)
ToolCallChoices ==
    {[name |-> "python", arguments |-> [json |-> TRUE,  cell |-> "plt.savefig('agents_chatting.png')"]],
     [name |-> "python", arguments |-> [json |-> FALSE, cell |-> "plt.savefig('agents_chatting.png')"]],
     [name |-> "sh",     arguments |-> [json |-> TRUE,  cell |-> "ls"]],
     [name |-> "sh",     arguments |-> [json |-> FALSE, cell |-> "ls"]],
     [name |-> "foo",    arguments |-> [json |-> TRUE,  cell |-> "ls"]]}

RECURSIVE ChoiceSeqsUpTo(_)
ChoiceSeqsUpTo(n) ==
    IF n = 0 THEN {<<>>}
    ELSE LET shorter == ChoiceSeqsUpTo(n - 1)
         IN  shorter \cup {Append(s, c) : s \in {x \in shorter : Len(x) = n - 1},
                                          c \in ToolCallChoices}

\* The model gives every call an id of its own: the number of the message and
\* the call's position in it
WithIds(round, choices) ==
    [i \in 1..Len(choices) |->
        [id |-> <<round, i>>, name |-> choices[i].name, arguments |-> choices[i].arguments]]

\* Every message the model can produce as its reply number round + 1
ChatbotMessages(round) ==
    {[content |-> c, tool_calls |-> WithIds(round, cs), tool_responses |-> <<>>] :
        c \in ChatContents, cs \in ChoiceSeqsUpTo(MaxToolCalls)}

InitialMessage ==
    [content |-> Some(<<"Draw two agents chatting with each other with an example dialog. Don't add plt.show().">>),
     tool_calls |-> <<>>, tool_responses |-> <<>>]

----------------------------------------------------------------------------
(* The agent library's dispatch, as user_proxy is configured *)

\* json.loads(arguments): None stands for json.JSONDecodeError
json_loads(arguments) ==
    IF arguments.json THEN Some([cell |-> arguments.cell]) ELSE None

\* str() of the (exitcode, logs) pair exec_sh returns
str_pair(pair) == <<"(", IF pair[1] = 0 THEN "0" ELSE "1", ", ">> \o pair[2] \o <<")">>

\* func(**arguments) for the two callables of the notebook
call_function(func, arguments, outcome) ==
    IF func = "exec_python" THEN exec_python(outcome) ELSE str_pair(exec_sh(outcome))

\* What running the callable can give; one value when nothing is run
NoOutcome == [result |-> "None", error_before_exec |-> None, error_in_exec |-> None]

RunOutcomes ==
    {NoOutcome,
     [result |-> "'TERMINATE'", error_before_exec |-> None, error_in_exec |-> None],
     [result |-> "None", error_before_exec |-> None, error_in_exec |-> Some("ZeroDivisionError")]}

Outcomes(fmap, call) ==
    IF call.name \in DOMAIN fmap /\ ~IsNone(json_loads(call.arguments))
    THEN IF fmap[call.name] = "exec_python" THEN RunOutcomes ELSE ShellResults
    ELSE {NoOutcome}

JsonError == <<"Error: ", "Expecting value: line 1 column 1 (char 0)",
               "\n", " You argument should follow json format.">>

NotFoundError(name) == <<"Error: Function ", name, " not found.">>

\* ConversableAgent.execute_function: the response content, and the call made
execute_function(fmap, call, outcome) ==
    IF call.name \in DOMAIN fmap
    THEN LET arguments == json_loads(call.arguments)
         IN  IF IsNone(arguments)
             THEN [content |-> JsonError, ran |-> None]
             ELSE [content |-> call_function(fmap[call.name], Val(arguments), outcome),
                   ran |-> Some([id |-> call.id, name |-> call.name,
                                 func |-> fmap[call.name], cell |-> Val(arguments).cell])]
    ELSE [content |-> NotFoundError(call.name), ran |-> None]

\* ConversableAgent.check_termination_and_human_reply: what user_proxy does next
check_termination_and_human_reply(mode, limit, cnt, msg) ==
    IF mode = "ALWAYS" THEN "await_human"
    ELSE IF cnt >= limit \/ is_termination_msg(msg)
         THEN IF mode = "NEVER" THEN "done" ELSE "await_human"
         ELSE "proxy_reply"

\* The reply user_proxy sends: the tool responses, or the default auto reply ""
proxy_reply(returns) ==
    IF returns = <<>>
    THEN [content |-> Some(<<>>), tool_calls |-> <<>>, tool_responses |-> <<>>]
    ELSE [content |-> Some(join(<<"\n", "\n">>, [i \in 1..Len(returns) |-> returns[i].content])),
          tool_calls |-> <<>>, tool_responses |-> returns]

\* AssistantAgent keeps the library's default test: content == "TERMINATE"
chatbot_is_termination_msg(x) == x.content = Some(<<"TERMINATE">>)

----------------------------------------------------------------------------
(* The notebook, cell by cell, and the chat *)

ChatInit ==
    /\ nb = "start"
    /\ function_map = <<>>
    /\ llm_tools = {}
    /\ chatbot_function_map = <<>>
    /\ proxy_llm_tools = {}
    /\ phase = "none"
    /\ counter = 0
    /\ to_proxy = None
    /\ to_chatbot = None
    /\ tool_returns = <<>>
    /\ executions = <<>>
    /\ running = {}
    /\ senders = <<>>
    /\ open_calls = {}
    /\ misdelivered = FALSE

\* chatbot = AssistantAgent(...); user_proxy = UserProxyAgent(...)
CreateAgents ==
    /\ nb = "start"
    /\ nb' = "agents"
    /\ UNCHANGED <<notChat, regVars, phase, counter, msgVars>>

\* @user_proxy.register_for_execution() @chatbot.register_for_llm(name="python") def exec_python
DecorateExecPython ==
    /\ nb = "agents"
    /\ nb' = "decorated"
    /\ llm_tools' = register_for_llm(DecoratorCaller, "chatbot", llm_tools, DecoratorName)
    /\ proxy_llm_tools' =
           register_for_llm(DecoratorCaller, "user_proxy", proxy_llm_tools, DecoratorName)
    /\ function_map' = register_for_execution(DecoratorExecutor, "user_proxy", function_map,
                                              DecoratorName, "exec_python")
    /\ chatbot_function_map' =
           register_for_execution(DecoratorExecutor, "chatbot", chatbot_function_map,
                                  DecoratorName, "exec_python")
    /\ UNCHANGED <<notChat, phase, counter, msgVars>>

\* def exec_sh, then autogen.agentchat.register_function(exec_python, ..., name="sh")
RegisterFunction ==
    /\ nb = "decorated"
    /\ nb' = "registered"
    /\ llm_tools' =
           register_for_llm(RegisterFunctionCaller, "chatbot", llm_tools, RegisterFunctionName)
    /\ proxy_llm_tools' =
           register_for_llm(RegisterFunctionCaller, "user_proxy", proxy_llm_tools,
                            RegisterFunctionName)
    /\ function_map' =
           register_for_execution(RegisterFunctionExecutor, "user_proxy", function_map,
                                  RegisterFunctionName, RegisterFunctionArg)
    /\ chatbot_function_map' =
           register_for_execution(RegisterFunctionExecutor, "chatbot", chatbot_function_map,
                                  RegisterFunctionName, RegisterFunctionArg)
    /\ UNCHANGED <<notChat, phase, counter, msgVars>>

\* user_proxy.initiate_chat(chatbot, message=...)
InitiateChat ==
    /\ nb = "registered"
    /\ nb' = "chat"
    /\ phase' = "chatbot"
    /\ counter' = 0
    /\ to_chatbot' = Some(InitialMessage)
    /\ senders' = <<"user_proxy">>
    /\ UNCHANGED <<notChat, regVars, to_proxy, tool_returns, executions, running, open_calls,
                   misdelivered>>

\* chatbot receives a message and the model answers it
ChatbotReply ==
    /\ phase = "chatbot"
    /\ ~chatbot_is_termination_msg(Val(to_chatbot))
    /\ \E msg \in ChatbotMessages(counter) :
          /\ to_proxy' = Some(msg)
          /\ open_calls' = open_calls \cup {msg.tool_calls[i].id : i \in 1..Len(msg.tool_calls)}
    /\ to_chatbot' = None
    /\ phase' = "proxy_check"
    /\ senders' = Append(senders, "chatbot")
    /\ UNCHANGED <<notChat, nb, regVars, counter, tool_returns, executions, running,
                   misdelivered>>

\* chatbot receives a message that is exactly TERMINATE and does not answer
ChatbotStop ==
    /\ phase = "chatbot"
    /\ chatbot_is_termination_msg(Val(to_chatbot))
    /\ phase' = "done"
    /\ UNCHANGED <<notChat, nb, regVars, counter, msgVars>>

\* user_proxy receives chatbot's message: stop, or count one more auto reply
ProxyCheck ==
    /\ phase = "proxy_check"
    /\ phase' = check_termination_and_human_reply(human_input_mode, MaxConsecutiveAutoReply,
                                                  counter, Val(to_proxy))
    /\ counter' = IF phase' = "proxy_reply" THEN counter + 1 ELSE counter
    /\ UNCHANGED <<notChat, nb, regVars, msgVars>>

\* execute_function finds the callable and parses the arguments: func(**arguments) is next
calls_function(fmap, call) ==
    call.name \in DOMAIN fmap /\ ~IsNone(json_loads(call.arguments))

\* user_proxy enters the callable of the next tool call of the message
ProxyStartFunction ==
    /\ phase = "proxy_reply"
    /\ Len(tool_returns) < Len(Val(to_proxy).tool_calls)
    /\ LET call == Val(to_proxy).tool_calls[Len(tool_returns) + 1]
       IN  /\ calls_function(function_map, call)
           /\ call.id \notin running
           /\ running' = running \cup {call.id}
    /\ UNCHANGED <<notChat, nb, regVars, phase, counter, to_proxy, to_chatbot, tool_returns,
                   executions, senders, open_calls, misdelivered>>

\* generate_tool_calls_reply, one tool call of the message at a time, in order:
\* the callable returns, or the call is answered with an error without one
ProxyExecute ==
    /\ phase = "proxy_reply"
    /\ Len(tool_returns) < Len(Val(to_proxy).tool_calls)
    /\ LET call == Val(to_proxy).tool_calls[Len(tool_returns) + 1]
       IN  /\ calls_function(function_map, call) => call.id \in running
           /\ running' = running \ {call.id}
           /\ \E outcome \in Outcomes(function_map, call) :
                 LET r == execute_function(function_map, call, outcome)
                 IN  /\ tool_returns' = Append(tool_returns,
                                               [tool_call_id |-> call.id, content |-> r.content])
                     /\ executions' = IF IsNone(r.ran) THEN executions
                                      ELSE Append(executions, Val(r.ran))
    /\ UNCHANGED <<notChat, nb, regVars, phase, counter, to_proxy, to_chatbot, senders,
                   open_calls, misdelivered>>

\* user_proxy sends its reply to chatbot and its handling of the message ends
ProxySend ==
    /\ phase = "proxy_reply"
    /\ Len(tool_returns) = Len(Val(to_proxy).tool_calls)
    /\ LET reply == proxy_reply(tool_returns)
           ids == {reply.tool_responses[i].tool_call_id : i \in 1..Len(reply.tool_responses)}
       IN  /\ to_chatbot' = Some(reply)
           /\ open_calls' = open_calls \ ids
           /\ misdelivered' = (\/ misdelivered
                               \/ ~(ids \subseteq open_calls)
                               \/ Cardinality(ids) # Len(reply.tool_responses))
    /\ to_proxy' = None
    /\ tool_returns' = <<>>
    /\ executions' = <<>>
    /\ senders' = Append(senders, "user_proxy")
    /\ phase' = "chatbot"
    /\ UNCHANGED <<notChat, nb, regVars, counter, running>>

----------------------------------------------------------------------------
(* The docs workflow *)

Events == {"pull_request", "push", "workflow_dispatch", "merge_group"}

Jobs == {"checks", "gh-release"}

\* Faulty variant: gh-release without its if:
JobIf_release_always(job, ev) ==
    IF job = "checks" THEN ev # "push" ELSE TRUE

\* jobs.<job>.if
JobIf(job, ev) ==
    IF job = "checks" THEN ev # "push" ELSE ev # "pull_request"

\* Faulty variant: package-lock.json tested before yarn.lock
BuildScript_npm_first(yarn, pkg) ==
    IF pkg THEN <<"npm ci", "npm run build">>
    ELSE IF yarn THEN <<"yarn install --frozen-lockfile --ignore-engines", "yarn build">>
    ELSE <<"npm i --legacy-peer-deps", "npm run build">>

\* The script of "Test Build" and of "Build website": the commands it starts
\* when none of them fails
BuildScript(yarn, pkg) ==
    IF yarn THEN <<"yarn install --frozen-lockfile --ignore-engines", "yarn build">>
    ELSE IF pkg THEN <<"npm ci", "npm run build">>
    ELSE <<"npm i --legacy-peer-deps", "npm run build">>

CommonSteps(build_name, yarn, pkg) ==
    << [name |-> "actions/checkout@v3", run |-> <<"uses: actions/checkout@v3">>],
       [name |-> "actions/setup-node@v4", run |-> <<"uses: actions/setup-node@v4">>],
       [name |-> "setup python", run |-> <<"uses: actions/setup-python@v4">>],
       [name |-> "pydoc-markdown install",
        run |-> <<"python -m pip install --upgrade pip", "pip install pydoc-markdown">>],
       [name |-> "pydoc-markdown run", run |-> <<"pydoc-markdown">>],
       [name |-> "quarto install",
        run |-> <<"wget -q quarto-1.4.549-linux-amd64.tar.gz",
                  "tar -xzf quarto-1.4.549-linux-amd64.tar.gz",
                  "echo quarto-1.4.549/bin/ >> $GITHUB_PATH">>],
       [name |-> "quarto run", run |-> <<"quarto render .">>],
       [name |-> build_name, run |-> BuildScript(yarn, pkg)] >>

DeployStep ==
    [name |-> "Deploy to GitHub Pages", run |-> <<"uses: peaceiris/actions-gh-pages@v3">>]

\* jobs.<job>.steps, in the order listed
Steps(job, yarn, pkg) ==
    IF job = "checks" THEN CommonSteps("Test Build", yarn, pkg)
    ELSE Append(CommonSteps("Build website", yarn, pkg), DeployStep)

\* Faulty variant: continue-on-error: true on the build step
ContinueOnError_build(job, i) == i = 8

\* No step of the workflow sets continue-on-error or an if: of its own
ContinueOnError(job, i) == FALSE

\* Faulty variant: gh-release with needs: checks
Needs_release_after_checks(job) == IF job = "gh-release" THEN {"checks"} ELSE {}

\* jobs.<job>.needs: neither job has the key
Needs(job) == {}

CIIdle ==
    /\ event = "none"
    /\ yarn_lock = FALSE
    /\ package_lock = FALSE
    /\ job_status = [j \in Jobs |-> "pending"]
    /\ steps_run = [j \in Jobs |-> <<>>]
    /\ commands = [j \in Jobs |-> <<>>]

CIInit ==
    /\ event \in Events
    /\ yarn_lock \in BOOLEAN
    /\ package_lock \in BOOLEAN
    /\ job_status = [j \in Jobs |-> "pending"]
    /\ steps_run = [j \in Jobs |-> <<>>]
    /\ commands = [j \in Jobs |-> <<>>]

\* The event arrives and the job's if: is evaluated
StartJob(job) ==
    /\ job_status[job] = "pending"
    /\ \A n \in Needs(job) : job_status[n] \in {"skipped", "success", "failure"}
    /\ job_status' = [job_status EXCEPT
                         ![job] = IF /\ JobIf(job, event)
                                     /\ \A n \in Needs(job) : job_status[n] = "success"
                                  THEN "running" ELSE "skipped"]
    /\ UNCHANGED <<notCI, event, yarn_lock, package_lock, steps_run, commands>>

\* The job's next step runs: under bash -e its commands start in order until
\* one exits non-zero; ok of them succeed
RunStep(job) ==
    /\ job_status[job] = "running"
    /\ Len(steps_run[job]) < Len(Steps(job, yarn_lock, package_lock))
    /\ LET i == Len(steps_run[job]) + 1
           all == Steps(job, yarn_lock, package_lock)
           step == all[i]
       IN  \E ok \in 0..Len(step.run) :
              LET passed == ok = Len(step.run)
                  started == IF passed THEN step.run ELSE SubSeq(step.run, 1, ok + 1)
              IN  /\ steps_run' = [steps_run EXCEPT ![job] =
                                      Append(@, [name |-> step.name, ok |-> passed])]
                  /\ commands' = [commands EXCEPT ![job] = @ \o started]
                  /\ job_status' = [job_status EXCEPT ![job] =
                        IF ~passed /\ ~ContinueOnError(job, i) THEN "failure"
                        ELSE IF i = Len(all) THEN "success"
                        ELSE "running"]
    /\ UNCHANGED <<notCI, event, yarn_lock, package_lock>>

----------------------------------------------------------------------------
(* exec_python on its own *)

FnIdle ==
    /\ cell_arg = "none"
    /\ run_result = None
    /\ log = None

FnInit ==
    /\ cell_arg \in Cells
    /\ run_result = None
    /\ log = None

\* result = ipython.run_cell(cell)
RunCell ==
    /\ run_result = None
    /\ \E r \in ExecutionResults : run_result' = Some(r)
    /\ UNCHANGED <<notFn, cell_arg, log>>

\* the rest of exec_python, to return log
ReturnLog ==
    /\ run_result # None
    /\ log = None
    /\ log' = Some(exec_python(Val(run_result)))
    /\ UNCHANGED <<notFn, cell_arg, run_result>>

----------------------------------------------------------------------------
(* config_list, cell 2 of the notebook *)

ModelNames == {"gpt-4", "gpt-3.5-turbo", "gpt-3.5-turbo-16k", "gpt-4-32k"}

\* A configuration: its model (None when the key is missing) and its key
Configs ==
    {[model |-> m, api_key |-> "<your OpenAI API key here>"] :
        m \in {None} \cup {Some(n) : n \in ModelNames}}

RECURSIVE ConfigListsUpTo(_)
ConfigListsUpTo(n) ==
    IF n = 0 THEN {<<>>}
    ELSE LET shorter == ConfigListsUpTo(n - 1)
         IN  shorter \cup {Append(l, c) : l \in {x \in shorter : Len(x) = n - 1}, c \in Configs}

\* Faulty variant: one model missing from the filter
filter_dict_model_short == {"gpt-4", "gpt-3.5-turbo"}

\* filter_dict["model"]
filter_dict_model == {"gpt-4", "gpt-3.5-turbo", "gpt-3.5-turbo-16k"}

\* keep the configurations whose model is one of the filter's
RECURSIVE filter_config(_, _)
filter_config(list, models) ==
    IF list = <<>> THEN <<>>
    ELSE LET rest == filter_config(Tail(list), models)
             c == list[1]
         IN  IF ~IsNone(c.model) /\ Val(c.model) \in models THEN <<c>> \o rest ELSE rest

\* autogen.config_list_from_json("OAI_CONFIG_LIST", filter_dict=...): the
\* environment variable first, the file if that variable is not found
config_list_from_json(env, file, models) ==
    [config_list |-> filter_config(IF ~IsNone(env) THEN Val(env) ELSE file, models),
     file_read |-> IsNone(env)]

CfgIdle ==
    /\ env_var = None
    /\ json_file = <<>>
    /\ config_list = None
    /\ file_read = FALSE

CfgInit ==
    /\ env_var \in {None} \cup {Some(l) : l \in ConfigListsUpTo(MaxConfigs)}
    /\ json_file \in ConfigListsUpTo(MaxConfigs)
    /\ config_list = None
    /\ file_read = FALSE

\* cell 2 runs
LoadConfigList ==
    /\ config_list = None
    /\ LET r == config_list_from_json(env_var, json_file, filter_dict_model)
       IN  /\ config_list' = Some(r.config_list)
           /\ file_read' = r.file_read
    /\ UNCHANGED <<notCfg, env_var, json_file>>

Init == ChatInit /\ CIIdle /\ FnIdle /\ CfgIdle

Next ==
    \/ CreateAgents
    \/ DecorateExecPython
    \/ RegisterFunction
    \/ InitiateChat
    \/ ChatbotReply
    \/ ChatbotStop
    \/ ProxyCheck
    \/ ProxyStartFunction
    \/ ProxyExecute
    \/ ProxySend

Spec == Init /\ [][Next]_vars

CINext == \E job \in Jobs : StartJob(job) \/ RunStep(job)

CIStart == ChatInit /\ CIInit /\ FnIdle /\ CfgIdle

CISpec == CIStart /\ [][CINext]_vars

FnStart == ChatInit /\ CIIdle /\ FnInit /\ CfgIdle

FnNext == RunCell \/ ReturnLog

FnSpec == FnStart /\ [][FnNext]_vars

CfgStart == ChatInit /\ CIIdle /\ FnIdle /\ CfgInit

CfgNext == LoadConfigList

CfgSpec == CfgStart /\ [][CfgNext]_vars

----------------------------------------------------------------------------
(* Properties of the notebook *)

Registered == nb \in {"registered", "chat"}

Range(f) == {f[x] : x \in DOMAIN f}

CallIds(msg) == {msg.tool_calls[i].id : i \in 1..Len(msg.tool_calls)}

\* A string that consists of anything, then TERMINATE, then white space only
EndsWithTerminate(content) ==
    /\ content # None
    /\ \E k \in 1..Len(Val(content)) :
          /\ Val(content)[k] = "TERMINATE"
          /\ \A j \in (k + 1)..Len(Val(content)) : Val(content)[j] \in Whitespace

NumberSentBy(agent) == Cardinality({i \in 1..Len(senders) : senders[i] = agent})

\* C1: once the registration cell has run, "python" maps to exec_python and
\* "sh" maps to exec_sh, both functions are registered under some name, and
\* every call made for a tool name runs the function of that name.
C1_ToolNamesRunTheirFunctions ==
    Registered =>
        /\ {"python", "sh"} \subseteq DOMAIN function_map
        /\ function_map["python"] = "exec_python"
        /\ function_map["sh"] = "exec_sh"
        /\ {"exec_python", "exec_sh"} \subseteq Range(function_map)
        /\ \A i \in 1..Len(executions) :
              /\ executions[i].name = "python" => executions[i].func = "exec_python"
              /\ executions[i].name = "sh" => executions[i].func = "exec_sh"

\* Steps left, compared lexicographically: cells and auto replies still to
\* come, then the position within one round, then tool calls still to run
StepsLeft ==
    <<(CASE nb = "start" -> 4 [] nb = "agents" -> 3 [] nb = "decorated" -> 2
         [] nb = "registered" -> 1 [] OTHER -> 0) + (10 - counter),
      CASE phase = "proxy_reply" -> 3 [] phase = "chatbot" -> 2
        [] phase = "proxy_check" -> 1 [] OTHER -> 0,
      IF to_proxy = None THEN 0
      ELSE 2 * (Len(Val(to_proxy).tool_calls) - Len(tool_returns)) - Cardinality(running)>>

LexLess(a, b) ==
    \/ a[1] < b[1]
    \/ a[1] = b[1] /\ a[2] < b[2]
    \/ a[1] = b[1] /\ a[2] = b[2] /\ a[3] < b[3]

\* C2: user_proxy sends at most 10 automatic replies after its initial
\* message, it never waits for human input, and the chat ends: every step
\* uses up one of a finite supply of steps, and the chat never stops short
\* of its end.
C2_BoundedExchange ==
    /\ [](/\ counter <= 10
          /\ NumberSentBy("user_proxy") <= 1 + 10
          /\ phase # "await_human"
          /\ \A i \in 1..3 : StepsLeft[i] >= 0
          /\ (phase # "done" => ENABLED Next))
    /\ [][LexLess(StepsLeft', StepsLeft)]_vars

C2_Witness_CapReached ==
    /\ phase = "done"
    /\ counter = 10
    /\ NumberSentBy("user_proxy") = 11
    /\ NumberSentBy("chatbot") = 11

\* user_proxy stops the chat on a message: it ends with TERMINATE, or the 10
\* automatic replies have been sent
ProxyStopsOn(msg, replies) == replies >= 10 \/ EndsWithTerminate(msg.content)

Registered_python_sh == {"python", "sh"}

Malformed(call) == ~call.arguments.json

\* C6: is_termination_msg is true for exactly the messages whose content is
\* not empty and, its trailing white space stripped, ends with TERMINATE; on
\* such a message from chatbot the chat ends: user_proxy runs no function and
\* sends no reply, so chatbot's message stays the last one.
C6_TerminateEndsChat ==
    to_proxy # None =>
        /\ is_termination_msg(Val(to_proxy)) <=> EndsWithTerminate(Val(to_proxy).content)
        /\ EndsWithTerminate(Val(to_proxy).content) =>
              /\ phase \in {"proxy_check", "done"}
              /\ tool_returns = <<>>
              /\ executions = <<>>
              /\ senders[Len(senders)] = "chatbot"
              /\ running = {}
              /\ ~ENABLED ProxyStartFunction
              /\ ~ENABLED ProxyExecute
              /\ ~ENABLED ProxySend

C6_Witness_TerminateWithTrailingNewline ==
    /\ phase = "done"
    /\ to_proxy # None
    /\ Val(to_proxy).content = Some(<<"TERMINATE", "\n">>)
    /\ Val(to_proxy).tool_calls # <<>>
    /\ counter < 10

\* C9 as claimed: whenever a message holds a tool call of a registered name
\* whose arguments are not JSON, user_proxy answers that call id and chatbot
\* gets another turn, so the call is not left open when the chat is over.
C9_MalformedCallAlwaysAnswered ==
    (phase = "done" /\ to_proxy # None) =>
        \A i \in 1..Len(Val(to_proxy).tool_calls) :
            LET call == Val(to_proxy).tool_calls[i]
            IN  (call.name \in Registered_python_sh /\ Malformed(call)) => call.id \notin open_calls

\* C9, amended: a tool call whose arguments are not JSON never runs a
\* function; unless user_proxy stops the chat on the message that holds it,
\* user_proxy answers the call id of a registered name with the json-format
\* error, the chat goes on and chatbot can answer.
C9_MalformedCallGetsJsonError ==
    /\ to_proxy # None =>
          LET msg == Val(to_proxy)
          IN  /\ \A e \in 1..Len(executions) :
                    \E i \in 1..Len(msg.tool_calls) :
                        /\ msg.tool_calls[i].id = executions[e].id
                        /\ ~Malformed(msg.tool_calls[i])
              /\ \A i \in 1..Len(tool_returns) :
                    (msg.tool_calls[i].name \in Registered_python_sh /\ Malformed(msg.tool_calls[i]))
                        => tool_returns[i] = [tool_call_id |-> msg.tool_calls[i].id,
                                              content |-> JsonError]
              /\ (phase = "proxy_reply") => ~ProxyStopsOn(msg, counter - 1)
              /\ (phase = "done") => ProxyStopsOn(msg, counter)
    /\ (to_chatbot # None /\ \E i \in 1..Len(Val(to_chatbot).tool_responses) :
                                Val(to_chatbot).tool_responses[i].content = JsonError)
          => phase = "chatbot" /\ ENABLED ChatbotReply

C9_Witness_JsonErrorDelivered ==
    /\ phase = "chatbot"
    /\ to_chatbot # None
    /\ Len(Val(to_chatbot).tool_responses) = 2
    /\ Val(to_chatbot).tool_responses[1].content = JsonError
    /\ Val(to_chatbot).tool_responses[2].content # JsonError

Alternation ==
    \A i \in 1..Len(senders) :
        senders[i] = IF i % 2 = 1 THEN "user_proxy" ELSE "chatbot"

\* C10 as claimed: every suggested tool call receives its response, so none
\* is open when the chat is over.
C10_EveryCallAnswered == phase = "done" => open_calls = {}

\* C10, amended: user_proxy opens and the two agents alternate; every tool
\* call of a message on which user_proxy does not stop the chat receives
\* exactly one response carrying its id, delivered before chatbot's next
\* message; no response is sent for an id that has no open call; the calls
\* of the message on which user_proxy stops receive none.
C10_AlternationAndResponses ==
    /\ Alternation
    /\ ~misdelivered
    /\ phase = "chatbot" => open_calls = {}
    /\ to_proxy = None => open_calls = {}
    /\ to_proxy # None =>
          LET msg == Val(to_proxy)
          IN  /\ open_calls = CallIds(msg)
              /\ Cardinality(CallIds(msg)) = Len(msg.tool_calls)
              /\ Len(tool_returns) <= Len(msg.tool_calls)
              /\ \A i \in 1..Len(tool_returns) :
                    tool_returns[i].tool_call_id = msg.tool_calls[i].id
              /\ phase = "proxy_reply" => ~ProxyStopsOn(msg, counter - 1)
              /\ phase = "done" => ProxyStopsOn(msg, counter)
    /\ to_chatbot # None =>
          \A i \in 1..Len(Val(to_chatbot).tool_responses) :
              Val(to_chatbot).tool_responses[i].tool_call_id = <<counter - 1, i>>

C10_Witness_TwoCallsAnswered ==
    /\ phase = "chatbot"
    /\ counter = 2
    /\ Len(Val(to_chatbot).tool_responses) = 2
    /\ open_calls = {}

----------------------------------------------------------------------------
(* Properties of the docs workflow *)

ListedSteps(job) ==
    LET build == IF job = "checks" THEN "Test Build" ELSE "Build website"
        common == <<"actions/checkout@v3", "actions/setup-node@v4", "setup python",
                    "pydoc-markdown install", "pydoc-markdown run", "quarto install",
                    "quarto run", build>>
    IN  IF job = "checks" THEN common ELSE Append(common, "Deploy to GitHub Pages")

DeployStarted ==
    \E i \in 1..Len(steps_run["gh-release"]) :
        steps_run["gh-release"][i].name = "Deploy to GitHub Pages"

\* C4: in each job the steps run in their listed order and the job halts at
\* the first step that fails: only the last step started can have failed,
\* a failed job starts no further step, and Deploy to GitHub Pages starts
\* only after the eight steps before it have succeeded in the same run.
C4_StepsInOrderHaltOnFailure ==
    /\ \A job \in Jobs :
          LET ran == steps_run[job]
          IN  /\ Len(ran) <= Len(ListedSteps(job))
              /\ \A i \in 1..Len(ran) : ran[i].name = ListedSteps(job)[i]
              /\ \A i \in 1..(Len(ran) - 1) : ran[i].ok
              /\ job_status[job] = "failure" <=> (ran # <<>> /\ ~ran[Len(ran)].ok)
              /\ job_status[job] = "failure" => ~ENABLED RunStep(job)
    /\ DeployStarted =>
          /\ Len(steps_run["gh-release"]) = 9
          /\ \A i \in 1..8 : steps_run["gh-release"][i].ok

C4_Witness_BuildFailedNoDeploy ==
    /\ job_status["gh-release"] = "failure"
    /\ Len(steps_run["gh-release"]) = 8
    /\ ~DeployStarted
    /\ job_status["checks"] = "success"

RECURSIVE AllCommands(_)
AllCommands(steps) ==
    IF steps = <<>> THEN <<>> ELSE steps[1].run \o AllCommands(Tail(steps))

\* C5 as claimed: a successful run of a job starts the same commands whatever
\* lock files the repository holds.
C5_CommandsIndependentOfRepository ==
    \A job \in Jobs :
        job_status[job] = "success" =>
            \A yarn \in BOOLEAN, pkg \in BOOLEAN :
                commands[job] = AllCommands(Steps(job, yarn, pkg))

BeforeBuild ==
    <<"uses: actions/checkout@v3", "uses: actions/setup-node@v4",
      "uses: actions/setup-python@v4",
      "python -m pip install --upgrade pip", "pip install pydoc-markdown",
      "pydoc-markdown",
      "wget -q quarto-1.4.549-linux-amd64.tar.gz",
      "tar -xzf quarto-1.4.549-linux-amd64.tar.gz",
      "echo quarto-1.4.549/bin/ >> $GITHUB_PATH",
      "quarto render .">>

BuildByLockFile ==
    CASE yarn_lock -> <<"yarn install --frozen-lockfile --ignore-engines", "yarn build">>
      [] ~yarn_lock /\ package_lock -> <<"npm ci", "npm run build">>
      [] ~yarn_lock /\ ~package_lock -> <<"npm i --legacy-peer-deps", "npm run build">>

\* C5, amended: a successful run of a job runs the same fixed sequence of
\* steps; its commands are fixed except in the build step, which runs yarn
\* when yarn.lock exists, else npm ci when package-lock.json exists, else
\* npm i, each followed by the build.
C5_FixedStepsBuildByLockFile ==
    \A job \in Jobs :
        job_status[job] = "success" =>
            /\ [i \in 1..Len(steps_run[job]) |-> steps_run[job][i].name] = ListedSteps(job)
            /\ commands[job] =
                  BeforeBuild \o BuildByLockFile \o
                  (IF job = "checks" THEN <<>> ELSE <<"uses: peaceiris/actions-gh-pages@v3">>)

C5_Witness_BothLockFiles ==
    /\ yarn_lock /\ package_lock
    /\ job_status["checks"] = "success"
    /\ job_status["gh-release"] = "success"
    /\ commands["checks"][12] = "yarn build"

RunsOn(job) ==
    IF job = "checks" THEN {"pull_request", "workflow_dispatch", "merge_group"}
    ELSE {"push", "workflow_dispatch", "merge_group"}

\* C8: checks runs exactly on the events that are not push and gh-release
\* exactly on those that are not pull_request: a pull_request never starts
\* Deploy to GitHub Pages, a push runs gh-release only, workflow_dispatch and
\* merge_group run both jobs.
C8_JobGating ==
    /\ \A job \in Jobs :
          /\ job_status[job] = "pending" => ENABLED StartJob(job)
          /\ job_status[job] = "pending" => steps_run[job] = <<>>
          /\ job_status[job] \in {"running", "success", "failure"} => event \in RunsOn(job)
          /\ job_status[job] = "skipped" => event \notin RunsOn(job) /\ steps_run[job] = <<>>
    /\ event = "pull_request" => ~DeployStarted /\ steps_run["gh-release"] = <<>>
    /\ event = "push" => steps_run["checks"] = <<>>
    /\ event \in {"workflow_dispatch", "merge_group"} =>
          \A job \in Jobs : job_status[job] # "skipped"

C8_Witness_MergeGroupRunsBoth ==
    /\ event = "merge_group"
    /\ job_status["checks"] = "success"
    /\ job_status["gh-release"] = "success"
    /\ DeployStarted

----------------------------------------------------------------------------
(* Properties of exec_python and of config_list *)

ErrorsSet(r) ==
    (IF r.error_before_exec # None THEN {"before"} ELSE {}) \cup
    (IF r.error_in_exec # None THEN {"in"} ELSE {})

\* C3: exec_python returns a string that starts with str(result.result),
\* then a newline and the text of error_before_exec if that is not None,
\* then a newline and the text of error_in_exec if that is not None; a None
\* error adds nothing.
C3_LogOfRunCell ==
    log # None =>
        LET r == Val(run_result)
            l == Val(log)
            n == Len(l)
        IN  /\ n = 1 + 2 * Cardinality(ErrorsSet(r))
            /\ SubSeq(l, 1, 1) = str(r.result)
            /\ r.error_before_exec # None =>
                  l[2] = "\n" /\ <<l[3]>> = format_error(Val(r.error_before_exec))
            /\ r.error_in_exec # None =>
                  l[n - 1] = "\n" /\ <<l[n]>> = format_error(Val(r.error_in_exec))
            /\ \A i \in 1..n : l[i] \in STRING

C3_Witness_BothErrors ==
    /\ log # None
    /\ Val(run_result).error_before_exec = Some("SyntaxError")
    /\ Val(run_result).error_in_exec = Some("ZeroDivisionError")
    /\ Len(Val(log)) = 5

Count(list, c) == Cardinality({i \in 1..Len(list) : list[i] = c})

RECURSIVE IsSubsequence(_, _)
IsSubsequence(a, b) ==
    IF a = <<>> THEN TRUE
    ELSE IF b = <<>> THEN FALSE
    ELSE IF a[1] = b[1] THEN IsSubsequence(Tail(a), Tail(b))
    ELSE IsSubsequence(a, Tail(b))

\* C7: config_list holds exactly the configurations of the source list (the
\* environment variable if set, else the file) whose model is gpt-4,
\* gpt-3.5-turbo or gpt-3.5-turbo-16k, in the source's order, and the file is
\* read only when the environment variable is not found.
C7_ConfigListFiltered ==
    config_list # None =>
        LET source == IF env_var # None THEN Val(env_var) ELSE json_file
            kept == Val(config_list)
        IN  /\ \A c \in Configs :
                  Count(kept, c) =
                      IF c.model \in {Some("gpt-4"), Some("gpt-3.5-turbo"), Some("gpt-3.5-turbo-16k")}
                      THEN Count(source, c) ELSE 0
            /\ IsSubsequence(kept, source)
            /\ file_read <=> env_var = None

C7_Witness_EnvSetSomeDropped ==
    /\ config_list # None
    /\ env_var # None
    /\ Len(Val(env_var)) = 2
    /\ Len(Val(config_list)) = 1
    /\ Val(config_list)[1].model = Some("gpt-3.5-turbo-16k")
    /\ json_file # <<>>
    /\ ~file_read

\* The tool call of chatbot's message that user_proxy handles next
NextCall == Val(to_proxy).tool_calls[Len(tool_returns) + 1]

\* The round of the chat in which chatbot sent the message user_proxy holds
LatestRound == IF phase = "proxy_reply" THEN counter - 1 ELSE counter

\* C11: the callables are held by user_proxy only and the tool signatures by
\* chatbot only; user_proxy's messages suggest no tool call; a callable is
\* entered or has run only while user_proxy builds its reply to chatbot's
\* latest message, for a tool call of that message that names a registered
\* tool, with the callable user_proxy holds under that name; a call is entered
\* only after every earlier call of the message has got its response, so at
\* most one callable is entered and not left.
C11_CallerSuggestsExecutorRuns ==
    /\ chatbot_function_map = <<>>
    /\ proxy_llm_tools = {}
    /\ DOMAIN function_map = llm_tools
    /\ to_chatbot # None => Val(to_chatbot).tool_calls = <<>>
    /\ to_proxy # None =>
          /\ senders[Len(senders)] = "chatbot"
          /\ \A id \in CallIds(Val(to_proxy)) : id[1] = LatestRound
    /\ (executions # <<>> \/ running # {} \/ tool_returns # <<>>) =>
          /\ phase = "proxy_reply"
          /\ to_proxy # None
          /\ Len(tool_returns) <= Len(Val(to_proxy).tool_calls)
    /\ \A e \in 1..Len(executions) :
          \E k \in 1..Len(tool_returns) :
             LET call == Val(to_proxy).tool_calls[k]
             IN  /\ executions[e].id = call.id
                 /\ executions[e].name = call.name
                 /\ call.name \in llm_tools
                 /\ executions[e].func = function_map[call.name]
    /\ running # {} =>
          /\ Len(tool_returns) < Len(Val(to_proxy).tool_calls)
          /\ running = {NextCall.id}
          /\ NextCall.name \in llm_tools
          /\ \A e \in 1..Len(executions) : executions[e].id # NextCall.id
    /\ Cardinality(running) <= 1

\* The second call of a message is entered after the first one has run
C11_Witness_SecondCallEntered ==
    /\ running # {}
    /\ Len(executions) = 1
    /\ Len(tool_returns) = 1
    /\ executions[1].name # NextCall.name

OtherJob(job) == CHOOSE other \in Jobs : other # job

\* C12: neither job waits for the other: whatever the other job's state, a
\* pending job can start and a running job can run its next step, and a step
\* of one job leaves the status and the steps of the other as they were.  So
\* on workflow_dispatch and merge_group, where both jobs run, gh-release can
\* run Deploy to GitHub Pages to its end while checks has failed, is running
\* or has not started.
C12_JobsIndependent ==
    /\ [](\A job \in Jobs :
            /\ job_status[job] = "pending" => ENABLED StartJob(job)
            /\ job_status[job] = "running" => ENABLED RunStep(job))
    /\ [][\A job \in Jobs :
            (job_status'[job] # job_status[job] \/ steps_run'[job] # steps_run[job]) =>
                /\ job_status'[OtherJob(job)] = job_status[OtherJob(job)]
                /\ steps_run'[OtherJob(job)] = steps_run[OtherJob(job)]]_vars

DeployCompleted ==
    /\ job_status["gh-release"] = "success"
    /\ steps_run["gh-release"][Len(steps_run["gh-release"])] = [name |-> DeployStep.name, ok |-> TRUE]

\* On workflow_dispatch the site is deployed in a run whose checks job failed
C12_Witness_DeployedWhileChecksFailed ==
    /\ event = "workflow_dispatch"
    /\ DeployCompleted
    /\ job_status["checks"] = "failure"

\* On merge_group the site is deployed before checks has run any step
DeployedBeforeChecksStarts ==
    /\ event = "merge_group"
    /\ DeployCompleted
    /\ job_status["checks"] \in {"pending", "running"}
    /\ steps_run["checks"] = <<>>

====
